---------------------------- MODULE Spec2Model ----------------------------
(***************************************************************************)
(* Model of src/camera_control/ic_camera.py: the ICCam camera session, its *)
(* VideoRecordingSession, and the frame-ready callback the driver thread   *)
(* runs while the controller thread configures, starts and stops the       *)
(* recording.                                                              *)
(*                                                                         *)
(* Two threads are modelled at statement granularity: the controller       *)
(* (cpc, cstack: the statement it is at and the return addresses of the    *)
(* calls it is in) and the driver / writer (dpc).  Spec interleaves them   *)
(* freely; SeqSpec lets an operation start only when the other thread is   *)
(* idle; CamSpec is the sequential life cycle of the camera session and    *)
(* RecSpec the sequential course of a recording on one device handle.      *)
(***************************************************************************)
EXTENDS Integers, Sequences, FiniteSets, TLC

\* ------------------------------------------------------------- bounds
\* callbacks / write calls that get past the recording_status check, in all
MaxCalls == 2
\* video writers opened in all (cv2.VideoWriter objects)
MaxSinks == 2
\* device handles opened in all (ic.TIS_CAM objects)
MaxHandles == 2

\* What the k-th callback or write is given: time.perf_counter() and the
\* driver's frame number both grow from one frame to the next.  A time is
\* never a frame number, so a swapped or mispaired entry is visible.
PerfCounter(k) == 10 * k
FrameNumber(k) == k

\* Buffer geometries <<buffer_size, width, height, bitsperpixel>>: one whose
\* byte length is width*height*bitsperpixel and one whose is not.
Geoms == {<<2, 2, 1, 1>>, <<3, 2, 1, 1>>}

VARIABLES
    \* VideoRecordingSession (self.vid_file): 0 stands for None
    vid_out, recording_status, frame_times, frame_num, geom,
    \* every cv2.VideoWriter opened so far: [released, frames]
    sinks,
    \* the device: ICCam.cam and the driver calls made on it
    cam, regLog,
    \* controller thread
    cpc, cstack, c_op, c_times, c_num, c_ret,
    \* driver thread (frame_callback_video) or a direct caller of write
    dpc, d_via, d_time, d_framenum, d_result,
    \* callbacks and writes entered so far
    calls,
    \* what the controller has done since the last configure (observer)
    scen

sessVars == <<vid_out, recording_status, frame_times, frame_num, geom, sinks>>
camVars == <<cam, regLog>>
ctlVars == <<cpc, cstack, c_op, c_times, c_num, c_ret>>
drvVars == <<dpc, d_via, d_time, d_framenum, d_result, calls>>
vars ==
    <<vid_out, recording_status, frame_times, frame_num, geom, sinks,
      cam, regLog, cpc, cstack, c_op, c_times, c_num, c_ret,
      dpc, d_via, d_time, d_framenum, d_result, calls, scen>>

\* ------------------------------------------------------------ helpers
None == 0

\* np_frame.reshape((height, width, bitsperpixel)) of a buffer_size array
ReshapeOk(g) == Len(g) = 4 /\ g[1] = g[3] * g[2] * g[4]

Times(s) == [i \in 1..Len(s) |-> s[i][1]]
Nums(s) == [i \in 1..Len(s) |-> s[i][2]]

\* ic.TIS_CAM(): a fresh grabber handle, nothing registered, not streaming
NewTisCam(h) ==
    [handle |-> h, callback_registered |-> FALSE, live |-> FALSE,
     trigger |-> FALSE, continuous |-> FALSE, flip |-> FALSE]

\* TIS_CAM.SetFrameReadyCallback: the driver takes the function pointer and
\* the handle remembers that one is registered
SetFrameReadyCallback(c) == [c EXCEPT !.callback_registered = TRUE]

\* VideoRecordingSession.__init__ and ICCam.__init__
Init ==
    /\ vid_out = None
    /\ recording_status = FALSE
    /\ frame_times = <<>>
    /\ frame_num = <<>>
    /\ geom = <<>>
    /\ sinks = <<>>
    /\ cam = NewTisCam(1)
    /\ regLog = <<>>
    /\ cpc = "idle"
    /\ cstack = <<>>
    /\ c_op = "none"
    /\ c_times = <<>>
    /\ c_num = <<>>
    /\ c_ret = <<>>
    /\ dpc = "idle"
    /\ d_via = "none"
    /\ d_time = 0
    /\ d_framenum = 0
    /\ d_result = "none"
    /\ calls = 0
    /\ scen = [phase |-> "none", given |-> <<>>, pre |-> <<>>, at |-> <<>>]

\* ------------------------------------------- the controller's call stack
\* a top-level call of operation op by the controller
CCall(op) ==
    /\ cpc = "idle"
    /\ c_op' = op

\* return from the method the controller is in
CReturn ==
    IF cstack = <<>>
    THEN cpc' = "done" /\ cstack' = cstack
    ELSE cpc' = Head(cstack) /\ cstack' = Tail(cstack)

\* ------------------------------------------------- VideoRecordingSession
\* set_recording_status(status), lines 327-333
set_recording_status(status) ==
    /\ cpc = "idle"
    /\ recording_status' = IF vid_out = None THEN recording_status ELSE status
    /\ UNCHANGED <<vid_out, frame_times, frame_num, geom, sinks>>
    /\ UNCHANGED <<camVars, ctlVars, drvVars>>

\* set_params(...), lines 336-355: the attributes given are stored.  g is the
\* buffer geometry given (<<>> when none is); with_file says whether
\* video_file is given (and then fourcc, fps and dim are).
set_params_attrs(with_file, g) ==
    /\ geom' = IF g = <<>> THEN geom ELSE g
    /\ cpc' = IF with_file THEN "sp_open" ELSE "sp_clear_times"

set_params(with_file, g) ==
    /\ CCall(IF with_file THEN "set_params_file" ELSE "set_params")
    /\ set_params_attrs(with_file, g)
    /\ UNCHANGED <<vid_out, recording_status, frame_times, frame_num, sinks>>
    /\ UNCHANGED <<cstack, c_times, c_num, c_ret>>
    /\ UNCHANGED <<camVars, drvVars>>

\* lines 357-359: self.vid_out = cv2.VideoWriter(...)
set_params_open ==
    /\ cpc = "sp_open"
    /\ Len(sinks) < MaxSinks
    /\ sinks' = Append(sinks, [released |-> FALSE, frames |-> <<>>])
    /\ vid_out' = Len(sinks) + 1
    /\ cpc' = "sp_file_times"
    /\ UNCHANGED <<recording_status, frame_times, frame_num, geom>>
    /\ UNCHANGED <<cstack, c_op, c_times, c_num, c_ret>>
    /\ UNCHANGED <<camVars, drvVars>>

\* line 360
set_params_file_times ==
    /\ cpc = "sp_file_times"
    /\ frame_times' = <<>>
    /\ cpc' = "sp_file_num"
    /\ UNCHANGED <<vid_out, recording_status, frame_num, geom, sinks>>
    /\ UNCHANGED <<cstack, c_op, c_times, c_num, c_ret>>
    /\ UNCHANGED <<camVars, drvVars>>

\* line 361
set_params_file_num ==
    /\ cpc = "sp_file_num"
    /\ frame_num' = <<>>
    /\ cpc' = "sp_clear_times"
    /\ UNCHANGED <<vid_out, recording_status, frame_times, geom, sinks>>
    /\ UNCHANGED <<cstack, c_op, c_times, c_num, c_ret>>
    /\ UNCHANGED <<camVars, drvVars>>

\* line 362
set_params_clear_times ==
    /\ cpc = "sp_clear_times"
    /\ frame_times' = <<>>
    /\ cpc' = "sp_clear_num"
    /\ UNCHANGED <<vid_out, recording_status, frame_num, geom, sinks>>
    /\ UNCHANGED <<cstack, c_op, c_times, c_num, c_ret>>
    /\ UNCHANGED <<camVars, drvVars>>

\* lines 363-365
set_params_clear_num ==
    /\ cpc = "sp_clear_num"
    /\ frame_num' = <<>>
    /\ CReturn
    /\ UNCHANGED <<vid_out, recording_status, frame_times, geom, sinks>>
    /\ UNCHANGED <<c_op, c_times, c_num, c_ret>>
    /\ UNCHANGED <<camVars, drvVars>>

\* reset(), called by the controller
reset ==
    /\ CCall("reset")
    /\ cpc' = "rs_vid_out"
    /\ UNCHANGED sessVars
    /\ UNCHANGED <<cstack, c_times, c_num, c_ret>>
    /\ UNCHANGED <<camVars, drvVars>>

\* line 368
reset_vid_out ==
    /\ cpc = "rs_vid_out"
    /\ vid_out' = None
    /\ cpc' = "rs_times"
    /\ UNCHANGED <<recording_status, frame_times, frame_num, geom, sinks>>
    /\ UNCHANGED <<cstack, c_op, c_times, c_num, c_ret>>
    /\ UNCHANGED <<camVars, drvVars>>

\* line 369
reset_times ==
    /\ cpc = "rs_times"
    /\ frame_times' = <<>>
    /\ cpc' = "rs_num"
    /\ UNCHANGED <<vid_out, recording_status, frame_num, geom, sinks>>
    /\ UNCHANGED <<cstack, c_op, c_times, c_num, c_ret>>
    /\ UNCHANGED <<camVars, drvVars>>

\* line 370
reset_num ==
    /\ cpc = "rs_num"
    /\ frame_num' = <<>>
    /\ cpc' = "rs_status"
    /\ UNCHANGED <<vid_out, recording_status, frame_times, geom, sinks>>
    /\ UNCHANGED <<cstack, c_op, c_times, c_num, c_ret>>
    /\ UNCHANGED <<camVars, drvVars>>

\* the recording flag is left as it is
reset_status_kept ==
    /\ cpc = "rs_status"
    /\ CReturn
    /\ UNCHANGED sessVars
    /\ UNCHANGED <<c_op, c_times, c_num, c_ret>>
    /\ UNCHANGED <<camVars, drvVars>>

\* line 371
reset_status ==
    /\ cpc = "rs_status"
    /\ recording_status' = FALSE
    /\ CReturn
    /\ UNCHANGED <<vid_out, frame_times, frame_num, geom, sinks>>
    /\ UNCHANGED <<c_op, c_times, c_num, c_ret>>
    /\ UNCHANGED <<camVars, drvVars>>

\* release(), lines 374-376: nothing to do when no sink is open
release_check ==
    /\ cpc = "rl_check"
    /\ IF vid_out = None
       THEN CReturn
       ELSE cpc' = "rl_release" /\ cstack' = cstack
    /\ UNCHANGED sessVars
    /\ UNCHANGED <<c_op, c_times, c_num, c_ret>>
    /\ UNCHANGED <<camVars, drvVars>>

\* release(), called by the controller
release ==
    /\ CCall("release")
    /\ cpc' = "rl_check"
    /\ UNCHANGED sessVars
    /\ UNCHANGED <<cstack, c_times, c_num, c_ret>>
    /\ UNCHANGED <<camVars, drvVars>>

\* line 377: self.vid_out.release()
release_sink ==
    /\ cpc = "rl_release"
    /\ sinks' = [sinks EXCEPT ![vid_out].released = TRUE]
    /\ cpc' = "rl_none"
    /\ UNCHANGED <<vid_out, recording_status, frame_times, frame_num, geom>>
    /\ UNCHANGED <<cstack, c_op, c_times, c_num, c_ret>>
    /\ UNCHANGED <<camVars, drvVars>>

\* line 378
release_none ==
    /\ cpc = "rl_none"
    /\ vid_out' = None
    /\ cpc' = "rl_status"
    /\ UNCHANGED <<recording_status, frame_times, frame_num, geom, sinks>>
    /\ UNCHANGED <<cstack, c_op, c_times, c_num, c_ret>>
    /\ UNCHANGED <<camVars, drvVars>>

\* line 379
release_status ==
    /\ cpc = "rl_status"
    /\ recording_status' = FALSE
    /\ cpc' = "rl_times"
    /\ UNCHANGED <<vid_out, frame_times, frame_num, geom, sinks>>
    /\ UNCHANGED <<cstack, c_op, c_times, c_num, c_ret>>
    /\ UNCHANGED <<camVars, drvVars>>

\* line 380
release_times ==
    /\ cpc = "rl_times"
    /\ frame_times' = <<>>
    /\ cpc' = "rl_num"
    /\ UNCHANGED <<vid_out, recording_status, frame_num, geom, sinks>>
    /\ UNCHANGED <<cstack, c_op, c_times, c_num, c_ret>>
    /\ UNCHANGED <<camVars, drvVars>>

\* lines 381-382
release_num ==
    /\ cpc = "rl_num"
    /\ frame_num' = <<>>
    /\ CReturn
    /\ UNCHANGED <<vid_out, recording_status, frame_times, geom, sinks>>
    /\ UNCHANGED <<c_op, c_times, c_num, c_ret>>
    /\ UNCHANGED <<camVars, drvVars>>

\* ------------------------------------------------------------------ ICCam
\* TIS_CAM.GetFrameData(): the geometry of the device's frame buffer
GetFrameData == {g \in Geoms : ReshapeOk(g)}

\* set_up_video_trigger(video_file, fourcc, fps, dim), lines 191-192
set_up_video_trigger ==
    /\ CCall("set_up_video_trigger")
    /\ cpc' = "rl_check"
    /\ cstack' = <<"sv_frame">>
    /\ UNCHANGED sessVars
    /\ UNCHANGED <<c_times, c_num, c_ret>>
    /\ UNCHANGED <<camVars, drvVars>>

\* lines 193-194: the frame geometry is read and set_params is entered
set_up_video_trigger_frame ==
    /\ cpc = "sv_frame"
    /\ \E g \in GetFrameData : set_params_attrs(TRUE, g)
    /\ cstack' = <<"sv_return">> \o cstack
    /\ UNCHANGED <<vid_out, recording_status, frame_times, frame_num, sinks>>
    /\ UNCHANGED <<c_op, c_times, c_num, c_ret>>
    /\ UNCHANGED <<camVars, drvVars>>

\* lines 195-196
set_up_video_trigger_return ==
    /\ cpc = "sv_return"
    /\ CReturn
    /\ UNCHANGED sessVars
    /\ UNCHANGED <<c_op, c_times, c_num, c_ret>>
    /\ UNCHANGED <<camVars, drvVars>>

\* release_video_file(), lines 199-200
release_video_file ==
    /\ CCall("release_video_file")
    /\ c_times' = frame_times
    /\ cpc' = "rv_copy_num"
    /\ UNCHANGED sessVars
    /\ UNCHANGED <<cstack, c_num, c_ret>>
    /\ UNCHANGED <<camVars, drvVars>>

\* lines 201-202: the second copy, then release() is entered
release_video_file_copy_num ==
    /\ cpc = "rv_copy_num"
    /\ c_num' = frame_num
    /\ cpc' = "rl_check"
    /\ cstack' = <<"rv_flip">> \o cstack
    /\ UNCHANGED sessVars
    /\ UNCHANGED <<c_op, c_times, c_ret>>
    /\ UNCHANGED <<camVars, drvVars>>

\* the vertical flip is left as it is
release_video_file_flip_kept ==
    /\ cpc = "rv_flip"
    /\ cpc' = "rs_vid_out"
    /\ cstack' = <<"rv_return">> \o cstack
    /\ UNCHANGED sessVars
    /\ UNCHANGED <<c_op, c_times, c_num, c_ret>>
    /\ UNCHANGED <<camVars, drvVars>>

\* lines 204-207: the vertical flip is switched off, then reset() is entered
release_video_file_flip ==
    /\ cpc = "rv_flip"
    /\ cam' = [cam EXCEPT !.flip = FALSE]
    /\ cpc' = "rs_vid_out"
    /\ cstack' = <<"rv_return">> \o cstack
    /\ UNCHANGED sessVars
    /\ UNCHANGED <<c_op, c_times, c_num, c_ret>>
    /\ UNCHANGED <<regLog, drvVars>>

\* the session's lists are returned, not the copies taken before release()
release_video_file_return_live ==
    /\ cpc = "rv_return"
    /\ c_ret' = <<frame_times, frame_num>>
    /\ CReturn
    /\ UNCHANGED sessVars
    /\ UNCHANGED <<c_op, c_times, c_num>>
    /\ UNCHANGED <<camVars, drvVars>>

\* lines 208-209
release_video_file_return ==
    /\ cpc = "rv_return"
    /\ c_ret' = <<c_times, c_num>>
    /\ CReturn
    /\ UNCHANGED sessVars
    /\ UNCHANGED <<c_op, c_times, c_num>>
    /\ UNCHANGED <<camVars, drvVars>>

\* the operation's caller has its result: the controller is idle again
CtlReturn ==
    /\ cpc = "done"
    /\ cpc' = "idle"
    /\ c_op' = "none"
    /\ c_times' = <<>>
    /\ c_num' = <<>>
    /\ c_ret' = <<>>
    /\ UNCHANGED <<sessVars, camVars, cstack, drvVars>>

\* ICCam.set_recording_status(state), lines 258-260
ICCam_set_recording_status(state) ==
    /\ cpc = "idle"
    /\ recording_status' = state
    /\ UNCHANGED <<vid_out, frame_times, frame_num, geom, sinks>>
    /\ UNCHANGED <<camVars, ctlVars, drvVars>>

\* the callback is registered whether or not one already is
SetCallbackVideoUnguarded(c, log) ==
    <<SetFrameReadyCallback(c), Append(log, c.handle)>>

\* set_frame_callback_video(), lines 240-256, on device c with the
\* registrations made so far: <<the device, the registrations>> afterwards
SetCallbackVideo(c, log) ==
    IF ~c.callback_registered
    THEN <<SetFrameReadyCallback(c), Append(log, c.handle)>>
    ELSE <<c, log>>

set_frame_callback_video ==
    /\ cpc = "idle"
    /\ LET r == SetCallbackVideo(cam, regLog)
       IN cam' = r[1] /\ regLog' = r[2]
    /\ UNCHANGED <<sessVars, ctlVars, drvVars>>

\* enable_trigger(), lines 139-143
enable_trigger ==
    /\ cpc = "idle"
    /\ LET c == [cam EXCEPT !.trigger = TRUE]
           r == IF ~c.callback_registered
                THEN SetCallbackVideo(c, regLog)
                ELSE <<c, regLog>>
       IN cam' = r[1] /\ regLog' = r[2]
    /\ UNCHANGED <<sessVars, ctlVars, drvVars>>

\* the stream is not suspended first
disable_trigger_unsuspended ==
    /\ CCall("disable_trigger")
    /\ cpc' = "dt_continuous"
    /\ UNCHANGED <<sessVars, camVars, drvVars>>
    /\ UNCHANGED <<cstack, c_times, c_num, c_ret>>

\* disable_trigger(), line 151: SuspendLive
disable_trigger ==
    /\ CCall("disable_trigger")
    /\ cam' = [cam EXCEPT !.live = FALSE]
    /\ cpc' = "dt_continuous"
    /\ UNCHANGED <<sessVars, regLog, drvVars>>
    /\ UNCHANGED <<cstack, c_times, c_num, c_ret>>

\* line 154: SetContinuousMode(1)
disable_trigger_continuous ==
    /\ cpc = "dt_continuous"
    /\ cam' = [cam EXCEPT !.continuous = TRUE]
    /\ cpc' = "dt_trigger"
    /\ UNCHANGED <<sessVars, regLog, drvVars>>
    /\ UNCHANGED <<cstack, c_op, c_times, c_num, c_ret>>

\* line 158: the trigger is switched off
disable_trigger_trigger ==
    /\ cpc = "dt_trigger"
    /\ cam' = [cam EXCEPT !.trigger = FALSE]
    /\ cpc' = "dt_start"
    /\ UNCHANGED <<sessVars, regLog, drvVars>>
    /\ UNCHANGED <<cstack, c_op, c_times, c_num, c_ret>>

\* lines 161-162: StartLive
disable_trigger_start ==
    /\ cpc = "dt_start"
    /\ cam' = [cam EXCEPT !.live = TRUE]
    /\ CReturn
    /\ UNCHANGED <<sessVars, regLog, drvVars>>
    /\ UNCHANGED <<c_op, c_times, c_num, c_ret>>

\* turn_off_continuous_mode(), line 276: SuspendLive
turn_off_continuous_mode ==
    /\ CCall("turn_off_continuous_mode")
    /\ cam' = [cam EXCEPT !.live = FALSE]
    /\ cpc' = "tc_set"
    /\ UNCHANGED <<sessVars, regLog, drvVars>>
    /\ UNCHANGED <<cstack, c_times, c_num, c_ret>>

\* turn_on_continuous_mode(), line 283: SuspendLive
turn_on_continuous_mode ==
    /\ CCall("turn_on_continuous_mode")
    /\ cam' = [cam EXCEPT !.live = FALSE]
    /\ cpc' = "tc_set"
    /\ UNCHANGED <<sessVars, regLog, drvVars>>
    /\ UNCHANGED <<cstack, c_times, c_num, c_ret>>

\* lines 277 and 284: SetContinuousMode(0) or SetContinuousMode(1)
turn_continuous_mode_set ==
    /\ cpc = "tc_set"
    /\ cam' = [cam EXCEPT !.continuous = (c_op = "turn_on_continuous_mode")]
    /\ cpc' = "tc_start"
    /\ UNCHANGED <<sessVars, regLog, drvVars>>
    /\ UNCHANGED <<cstack, c_op, c_times, c_num, c_ret>>

\* lines 278-279 and 285-286: StartLive
turn_continuous_mode_start ==
    /\ cpc = "tc_start"
    /\ cam' = [cam EXCEPT !.live = TRUE]
    /\ CReturn
    /\ UNCHANGED <<sessVars, regLog, drvVars>>
    /\ UNCHANGED <<c_op, c_times, c_num, c_ret>>

\* set_crop(...), lines 69-78: the device is closed and opened again
set_crop ==
    /\ cpc = "idle"
    /\ cam.handle < MaxHandles
    /\ cam' = [NewTisCam(cam.handle + 1) EXCEPT !.live = TRUE]
    /\ UNCHANGED <<sessVars, regLog, ctlVars, drvVars>>

\* set_flip_vertical(state), lines 288-294
set_flip_vertical(state) ==
    /\ cpc = "idle"
    /\ cam' = [cam EXCEPT !.flip = state]
    /\ UNCHANGED <<sessVars, regLog, ctlVars, drvVars>>

\* start(), lines 303-306
start ==
    /\ cpc = "idle"
    /\ cam' = [cam EXCEPT !.continuous = FALSE, !.flip = FALSE, !.live = TRUE]
    /\ UNCHANGED <<sessVars, regLog, ctlVars, drvVars>>

\* close(), line 316: StopLive
close ==
    /\ cpc = "idle"
    /\ cam' = [cam EXCEPT !.live = FALSE]
    /\ UNCHANGED <<sessVars, regLog, ctlVars, drvVars>>

\* ------------------------------------------------------ the driver thread
\* the driver calls the registered callback for a completed frame
FrameReady == cam.live /\ cam.callback_registered

\* frame_callback_video(handle_ptr, pBuffer, framenumber, pData), lines
\* 215-216: nothing is done unless recording_status is set
frame_callback_video ==
    /\ dpc = "idle"
    /\ FrameReady
    /\ d_via' = "callback"
    /\ IF recording_status
       THEN /\ calls < MaxCalls
            /\ calls' = calls + 1
            /\ d_time' = PerfCounter(calls + 1)
            /\ d_framenum' = FrameNumber(calls + 1)
            /\ dpc' = "cb_view"
            /\ d_result' = d_result
       ELSE /\ dpc' = "done"
            /\ d_result' = "skipped"
            /\ UNCHANGED <<calls, d_time, d_framenum>>
    /\ UNCHANGED <<sessVars, camVars, ctlVars>>

\* the frame goes on to write whatever the sizes are
frame_callback_video_view_unchecked ==
    /\ dpc = "cb_view"
    /\ dpc' = "w_gate"
    /\ UNCHANGED <<sessVars, camVars, ctlVars>>
    /\ UNCHANGED <<d_via, d_time, d_framenum, d_result, calls>>

\* lines 217-222: the buffer is read as a buffer_size array and reshaped to
\* (height, width, bitsperpixel); numpy raises when the sizes do not agree,
\* and the attributes do not exist before set_params has stored them
frame_callback_video_view ==
    /\ dpc = "cb_view"
    /\ IF ReshapeOk(geom)
       THEN dpc' = "w_gate" /\ d_result' = d_result
       ELSE dpc' = "done" /\ d_result' = "raised"
    /\ UNCHANGED <<sessVars, camVars, ctlVars>>
    /\ UNCHANGED <<d_via, d_time, d_framenum, calls>>

\* write(frame, time_data, frame_num) called on the session directly
write ==
    /\ dpc = "idle"
    /\ calls < MaxCalls
    /\ calls' = calls + 1
    /\ d_via' = "direct"
    /\ d_time' = PerfCounter(calls + 1)
    /\ d_framenum' = FrameNumber(calls + 1)
    /\ dpc' = "w_gate"
    /\ UNCHANGED <<sessVars, camVars, ctlVars, d_result>>

\* the gate looks at the sink only
write_gate_sink_only ==
    /\ dpc = "w_gate"
    /\ IF vid_out = None
       THEN dpc' = "done" /\ d_result' = "rejected"
       ELSE dpc' = "w_encode" /\ d_result' = d_result
    /\ UNCHANGED <<sessVars, camVars, ctlVars>>
    /\ UNCHANGED <<d_via, d_time, d_framenum, calls>>

\* the gate looks at the recording flag only
write_gate_flag_only ==
    /\ dpc = "w_gate"
    /\ IF recording_status = FALSE
       THEN dpc' = "done" /\ d_result' = "rejected"
       ELSE dpc' = "w_encode" /\ d_result' = d_result
    /\ UNCHANGED <<sessVars, camVars, ctlVars>>
    /\ UNCHANGED <<d_via, d_time, d_framenum, calls>>

\* lines 385-387
write_gate ==
    /\ dpc = "w_gate"
    /\ IF vid_out = None \/ recording_status = FALSE
       THEN dpc' = "done" /\ d_result' = "rejected"
       ELSE dpc' = "w_encode" /\ d_result' = d_result
    /\ UNCHANGED <<sessVars, camVars, ctlVars>>
    /\ UNCHANGED <<d_via, d_time, d_framenum, calls>>

\* a failed encode is swallowed and the write goes on to its appends
write_encode_swallowed(encoded) ==
    /\ dpc = "w_encode"
    /\ vid_out # None
    /\ dpc' = "w_times"
    /\ d_result' = d_result
    /\ sinks' = IF encoded /\ ~sinks[vid_out].released
                THEN [sinks EXCEPT ![vid_out].frames =
                                     Append(@, <<d_time, d_framenum>>)]
                ELSE sinks
    /\ UNCHANGED <<vid_out, recording_status, frame_times, frame_num, geom>>
    /\ UNCHANGED <<camVars, ctlVars>>
    /\ UNCHANGED <<d_via, d_time, d_framenum, calls>>

\* line 388: self.vid_out.write(frame).  None has no write; a released
\* writer takes the call and encodes nothing; an open one encodes the frame
\* (encoded TRUE) or raises (encoded FALSE).
write_encode(encoded) ==
    /\ dpc = "w_encode"
    /\ IF vid_out = None
       THEN /\ dpc' = "done" /\ d_result' = "raised"
            /\ sinks' = sinks
       ELSE IF sinks[vid_out].released
       THEN /\ dpc' = "w_times" /\ d_result' = d_result
            /\ sinks' = sinks
       ELSE IF encoded
       THEN /\ dpc' = "w_times" /\ d_result' = d_result
            /\ sinks' = [sinks EXCEPT ![vid_out].frames =
                                         Append(@, <<d_time, d_framenum>>)]
       ELSE /\ dpc' = "done" /\ d_result' = "raised"
            /\ sinks' = sinks
    /\ UNCHANGED <<vid_out, recording_status, frame_times, frame_num, geom>>
    /\ UNCHANGED <<camVars, ctlVars>>
    /\ UNCHANGED <<d_via, d_time, d_framenum, calls>>

\* the frame number is appended where the time should be
write_append_time_swapped ==
    /\ dpc = "w_times"
    /\ frame_times' = Append(frame_times, d_framenum)
    /\ dpc' = "w_num"
    /\ UNCHANGED <<vid_out, recording_status, frame_num, geom, sinks>>
    /\ UNCHANGED <<camVars, ctlVars>>
    /\ UNCHANGED <<d_via, d_time, d_framenum, d_result, calls>>

\* line 389
write_append_time ==
    /\ dpc = "w_times"
    /\ frame_times' = Append(frame_times, d_time)
    /\ dpc' = "w_num"
    /\ UNCHANGED <<vid_out, recording_status, frame_num, geom, sinks>>
    /\ UNCHANGED <<camVars, ctlVars>>
    /\ UNCHANGED <<d_via, d_time, d_framenum, d_result, calls>>

\* the frame number is not appended
write_append_num_dropped ==
    /\ dpc = "w_num"
    /\ dpc' = "done"
    /\ d_result' = "ok"
    /\ UNCHANGED sessVars
    /\ UNCHANGED <<camVars, ctlVars>>
    /\ UNCHANGED <<d_via, d_time, d_framenum, calls>>

\* lines 390-391
write_append_num ==
    /\ dpc = "w_num"
    /\ frame_num' = Append(frame_num, d_framenum)
    /\ dpc' = "done"
    /\ d_result' = "ok"
    /\ UNCHANGED <<vid_out, recording_status, frame_times, geom, sinks>>
    /\ UNCHANGED <<camVars, ctlVars>>
    /\ UNCHANGED <<d_via, d_time, d_framenum, calls>>

\* the callback, or write, has returned or raised: the thread is idle again
DrvReturn ==
    /\ dpc = "done"
    /\ dpc' = "idle"
    /\ d_via' = "none"
    /\ d_time' = 0
    /\ d_framenum' = 0
    /\ d_result' = "none"
    /\ UNCHANGED <<sessVars, camVars, ctlVars, calls>>

\* ------------------------------------------------------- specifications
\* Spec: the driver thread runs the callback, or a caller runs write, while
\* the controller arms, starts, stops and releases the recording, the two
\* interleaved statement by statement.
\* a statement of the program: the observer is left alone
Step(A) == A /\ UNCHANGED scen

Next ==
    \/ \E status \in BOOLEAN : Step(set_recording_status(status))
    \/ \E state \in BOOLEAN : Step(ICCam_set_recording_status(state))
    \/ Step(release)
    \/ Step(release_check)
    \/ Step(release_sink)
    \/ Step(release_none)
    \/ Step(release_status)
    \/ Step(release_times)
    \/ Step(release_num)
    \/ Step(set_params_open)
    \/ Step(set_params_file_times)
    \/ Step(set_params_file_num)
    \/ Step(set_params_clear_times)
    \/ Step(set_params_clear_num)
    \/ Step(reset_vid_out)
    \/ Step(reset_times)
    \/ Step(reset_num)
    \/ Step(reset_status)
    \/ Step(set_up_video_trigger)
    \/ Step(set_up_video_trigger_frame)
    \/ Step(set_up_video_trigger_return)
    \/ Step(release_video_file)
    \/ Step(release_video_file_copy_num)
    \/ Step(release_video_file_flip)
    \/ Step(release_video_file_return)
    \/ Step(CtlReturn)
    \/ Step(start)
    \/ Step(enable_trigger)
    \/ Step(frame_callback_video)
    \/ Step(frame_callback_video_view)
    \/ Step(write)
    \/ Step(write_gate)
    \/ \E encoded \in BOOLEAN : Step(write_encode(encoded))
    \/ Step(write_append_time)
    \/ Step(write_append_num)
    \/ Step(DrvReturn)

Spec == Init /\ [][Next]_vars

\* SeqSpec: the operations of the recording session, one at a time, a call
\* of write standing for the frame the callback hands over.  An operation
\* starts only when the other thread is idle, and the observer scen keeps
\* what the specification's scenarios speak of: the phase since the last
\* configure (configured, enabled by one setRecording(true), or mixed),
\* the writes that returned 1 since then, the histories as they were when
\* the write in progress was called, and the session as it was when the
\* release_video_file in progress was called.
ScenAfter(op) ==
    CASE op \in {"set_params_file", "set_up_video_trigger"} ->
            [phase |-> "configured", given |-> <<>>, pre |-> <<>>,
             at |-> <<>>]
      [] op \in {"set_params", "reset", "release", "release_video_file"} ->
            [phase |-> "none", given |-> <<>>, pre |-> <<>>, at |-> <<>>]
      [] OTHER -> scen

ScenRecording(state) ==
    IF scen.phase = "none" THEN scen
    ELSE IF state /\ scen.phase = "configured" /\ scen.given = <<>>
    THEN [scen EXCEPT !.phase = "enabled"]
    ELSE IF state /\ scen.phase = "enabled" THEN scen
    ELSE [scen EXCEPT !.phase = "mixed"]

ScenWrite(result, t, n) ==
    IF scen.phase = "none" THEN [scen EXCEPT !.pre = <<>>]
    ELSE IF result = "ok"
    THEN [scen EXCEPT !.given = Append(@, <<t, n>>), !.pre = <<>>]
    ELSE IF scen.phase = "enabled"
    THEN [scen EXCEPT !.phase = "mixed", !.pre = <<>>]
    ELSE [scen EXCEPT !.pre = <<>>]

NextSeq ==
    \/ /\ dpc = "idle"
       /\ \E status \in BOOLEAN :
             /\ set_recording_status(status)
             /\ scen' = IF vid_out = None THEN scen ELSE ScenRecording(status)
    \/ /\ dpc = "idle"
       /\ \E state \in BOOLEAN :
             /\ ICCam_set_recording_status(state)
             /\ scen' = ScenRecording(state)
    \/ /\ dpc = "idle"
       /\ \E with_file \in BOOLEAN, g \in Geoms \cup {<<>>} :
             Step(set_params(with_file, g))
    \/ dpc = "idle" /\ Step(reset)
    \/ dpc = "idle" /\ Step(release)
    \/ dpc = "idle" /\ Step(set_up_video_trigger)
    \/ /\ dpc = "idle"
       /\ release_video_file
       /\ scen' = [scen EXCEPT !.at = <<vid_out, recording_status,
                                        frame_times, frame_num>>]
    \/ Step(set_params_open)
    \/ Step(set_params_file_times)
    \/ Step(set_params_file_num)
    \/ Step(set_params_clear_times)
    \/ Step(set_params_clear_num)
    \/ Step(reset_vid_out)
    \/ Step(reset_times)
    \/ Step(reset_num)
    \/ Step(reset_status)
    \/ Step(release_check)
    \/ Step(release_sink)
    \/ Step(release_none)
    \/ Step(release_status)
    \/ Step(release_times)
    \/ Step(release_num)
    \/ Step(set_up_video_trigger_frame)
    \/ Step(set_up_video_trigger_return)
    \/ Step(release_video_file_copy_num)
    \/ Step(release_video_file_flip)
    \/ Step(release_video_file_return)
    \/ CtlReturn /\ scen' = ScenAfter(c_op)
    \/ cpc = "idle" /\ Step(write)
    \/ write_gate /\ scen' = [scen EXCEPT !.pre = <<frame_times, frame_num>>]
    \/ \E encoded \in BOOLEAN : Step(write_encode(encoded))
    \/ Step(write_append_time)
    \/ Step(write_append_num)
    \/ DrvReturn /\ scen' = ScenWrite(d_result, d_time, d_framenum)

SeqSpec == Init /\ [][NextSeq]_vars

\* CamSpec: the life cycle of the camera session, one operation at a time:
\* the device is started, armed, reconfigured and stopped, the recording is
\* armed, switched on and off and released, and the driver delivers frames
\* to the callback in between.
NextCam ==
    \/ dpc = "idle" /\ Step(start)
    \/ dpc = "idle" /\ Step(close)
    \/ dpc = "idle" /\ Step(enable_trigger)
    \/ dpc = "idle" /\ Step(set_frame_callback_video)
    \/ dpc = "idle" /\ Step(disable_trigger)
    \/ Step(disable_trigger_continuous)
    \/ Step(disable_trigger_trigger)
    \/ Step(disable_trigger_start)
    \/ dpc = "idle" /\ Step(turn_off_continuous_mode)
    \/ dpc = "idle" /\ Step(turn_on_continuous_mode)
    \/ Step(turn_continuous_mode_set)
    \/ Step(turn_continuous_mode_start)
    \/ dpc = "idle" /\ Step(set_crop)
    \/ dpc = "idle" /\ \E state \in BOOLEAN :
                          Step(ICCam_set_recording_status(state))
    \/ dpc = "idle" /\ Step(set_up_video_trigger)
    \/ Step(set_up_video_trigger_frame)
    \/ Step(set_up_video_trigger_return)
    \/ Step(set_params_open)
    \/ Step(set_params_file_times)
    \/ Step(set_params_file_num)
    \/ Step(set_params_clear_times)
    \/ Step(set_params_clear_num)
    \/ dpc = "idle" /\ Step(release_video_file)
    \/ Step(release_video_file_copy_num)
    \/ Step(release_video_file_flip)
    \/ Step(release_video_file_return)
    \/ Step(release_check)
    \/ Step(release_sink)
    \/ Step(release_none)
    \/ Step(release_status)
    \/ Step(release_times)
    \/ Step(release_num)
    \/ Step(reset_vid_out)
    \/ Step(reset_times)
    \/ Step(reset_num)
    \/ Step(reset_status)
    \/ Step(CtlReturn)
    \/ cpc = "idle" /\ Step(frame_callback_video)
    \/ Step(frame_callback_video_view)
    \/ Step(write_gate)
    \/ \E encoded \in BOOLEAN : Step(write_encode(encoded))
    \/ Step(write_append_time)
    \/ Step(write_append_num)
    \/ Step(DrvReturn)

CamSpec == Init /\ [][NextCam]_vars

\* RecSpec: recording on one device handle, one operation at a time: the
\* device is started and armed, the vertical flip is switched, the session
\* is armed, given a buffer geometry, switched on and off and released, and
\* the driver delivers frames to the callback in between.
NextRec ==
    \/ dpc = "idle" /\ Step(start)
    \/ dpc = "idle" /\ Step(enable_trigger)
    \/ dpc = "idle" /\ \E state \in BOOLEAN : Step(set_flip_vertical(state))
    \/ dpc = "idle" /\ \E state \in BOOLEAN :
                          Step(ICCam_set_recording_status(state))
    \/ dpc = "idle" /\ \E g \in Geoms : Step(set_params(FALSE, g))
    \/ dpc = "idle" /\ Step(set_up_video_trigger)
    \/ Step(set_up_video_trigger_frame)
    \/ Step(set_up_video_trigger_return)
    \/ Step(set_params_open)
    \/ Step(set_params_file_times)
    \/ Step(set_params_file_num)
    \/ Step(set_params_clear_times)
    \/ Step(set_params_clear_num)
    \/ dpc = "idle" /\ Step(release_video_file)
    \/ Step(release_video_file_copy_num)
    \/ Step(release_video_file_flip)
    \/ Step(release_video_file_return)
    \/ Step(release_check)
    \/ Step(release_sink)
    \/ Step(release_none)
    \/ Step(release_status)
    \/ Step(release_times)
    \/ Step(release_num)
    \/ Step(reset_vid_out)
    \/ Step(reset_times)
    \/ Step(reset_num)
    \/ Step(reset_status)
    \/ Step(CtlReturn)
    \/ cpc = "idle" /\ Step(frame_callback_video)
    \/ Step(frame_callback_video_view)
    \/ Step(write_gate)
    \/ \E encoded \in BOOLEAN : Step(write_encode(encoded))
    \/ Step(write_append_time)
    \/ Step(write_append_num)
    \/ Step(DrvReturn)

RecSpec == Init /\ [][NextRec]_vars

\* ----------------------------------------------------------- properties
Idle == cpc = "idle" /\ dpc = "idle"

\* release_video_file has returned its pair to the caller
Returned == cpc = "done" /\ c_op = "release_video_file"

\* the video writer opened last
LastSink == sinks[Len(sinks)]

\* C1: no encode is issued on a sink that release has closed or set to
\* None: whenever the callback's write is about to run line 388, the sink
\* is still there and still open.
C1_EncodeOnlyOnOpenSink ==
    dpc = "w_encode" /\ d_via = "callback" =>
        vid_out # None /\ ~sinks[vid_out].released

\* C2: with write and release interleaved, the two lists of the pair that
\* release_video_file returns have the same length, and so have the two
\* histories that a release leaves behind once both threads are idle.
C2_EqualLengthsInterleaved ==
    /\ Returned => Len(c_ret[1]) = Len(c_ret[2])
    /\ Idle /\ vid_out = None => Len(frame_times) = Len(frame_num)

\* C3: one operation at a time, len(frame_times) = len(frame_num) after
\* every completed operation, and every pair release_video_file returns has
\* two lists of equal length.
C3_EqualLengths ==
    /\ cpc \in {"idle", "done"} /\ dpc \in {"idle", "done"} =>
          Len(frame_times) = Len(frame_num)
    /\ Returned => Len(c_ret[1]) = Len(c_ret[2])

C3_Witness ==
    /\ Returned
    /\ Len(c_ret[1]) = 2
    /\ frame_times = <<>>

\* C4: a callback or a write that meets recording_status false, at the
\* callback's check or at write's gate, ends there: it appends to neither
\* history and encodes nothing, whatever the sink is.
C4_NoWriteWhileDisabled ==
    [][(~recording_status /\ dpc \in {"idle", "w_gate"} /\ dpc' # dpc) =>
          /\ frame_times' = frame_times
          /\ frame_num' = frame_num
          /\ sinks' = sinks
          /\ dpc' \in {"w_gate", "done"}
          /\ dpc = "w_gate" => dpc' = "done" /\ d_result' = "rejected"]_vars

C4_Witness ==
    /\ dpc = "done"
    /\ d_result = "rejected"
    /\ ~recording_status
    /\ vid_out # None
    /\ ~sinks[vid_out].released
    /\ frame_times = <<>>
    /\ frame_num = <<>>
    /\ sinks[vid_out].frames = <<>>

\* C5: configure, setRecording(true), k writes, release_video_file: the pair
\* returned is the k times and the k frame numbers in write order, and the
\* sink that was closed holds exactly those k frames.
C5_ReleaseReturnsWrites ==
    Returned /\ scen.phase = "enabled" =>
        /\ c_ret = <<Times(scen.given), Nums(scen.given)>>
        /\ LastSink.released
        /\ LastSink.frames = scen.given

C5_Witness ==
    /\ Returned
    /\ scen.phase = "enabled"
    /\ Len(scen.given) = 2
    /\ c_ret = <<<<10, 20>>, <<1, 2>>>>

\* C6: setting the recording flag does nothing while no sink is open, so
\* between operations recording_status is never true with vid_out None.
C6_NoRecordingWithoutSink ==
    Idle /\ recording_status => vid_out # None

\* C7: no invocation of the frame-ready callback ends in an error that
\* leaves the callback.
C7_CallbackNeverRaises ==
    ~(d_via = "callback" /\ dpc = "done" /\ d_result = "raised")

C9_NoResidue ==
    (/\ Idle
     /\ scen.phase # "none"
     /\ \E i \in DOMAIN sinks : sinks[i].released) =>
        /\ frame_times = Times(scen.given)
        /\ frame_num = Nums(scen.given)

C9_Witness ==
    /\ Idle
    /\ scen.phase # "none"
    /\ Len(sinks) = 2
    /\ sinks[1].released
    /\ Len(sinks[1].frames) >= 1
    /\ Len(scen.given) >= 1
    /\ frame_times = Times(scen.given)

\* C10: when a write past the gate ends, either its encode raised and the
\* histories are as they were when it was called, or the frame is in the
\* sink and each history has gained exactly the write's time and number.
C10_WriteAtomicWithEncode ==
    (dpc = "done" /\ d_result \in {"raised", "ok"}) =>
        IF d_result = "raised"
        THEN <<frame_times, frame_num>> = scen.pre
        ELSE /\ frame_times = Append(scen.pre[1], d_time)
             /\ frame_num = Append(scen.pre[2], d_framenum)
             /\ vid_out # None
             /\ Len(sinks[vid_out].frames) >= 1
             /\ sinks[vid_out].frames[Len(sinks[vid_out].frames)]
                   = <<d_time, d_framenum>>

C10_Witness ==
    /\ dpc = "done"
    /\ d_result = "raised"
    /\ Len(frame_times) = 1
    /\ Len(sinks[vid_out].frames) = 1

\* C11: no sink is left open behind: every video writer other than the one
\* vid_out refers to has been released, so at most one is open at a time.
C11_NoSinkLeaked ==
    \A i \in DOMAIN sinks : i # vid_out => sinks[i].released

\* release_video_file has returned, and no sink was open when it was called
ReturnedFromNoSink == Returned /\ scen.at # <<>> /\ scen.at[1] = None

C13_WriteWithoutSinkRejected ==
    [][(dpc = "w_gate" /\ vid_out = None) =>
          /\ dpc' = "done"
          /\ d_result' = "rejected"
          /\ UNCHANGED sessVars]_vars

C13_Witness ==
    /\ dpc = "done"
    /\ d_via = "direct"
    /\ d_result = "rejected"
    /\ vid_out = None
    /\ recording_status
    /\ Len(sinks) = 1
    /\ sinks[1].released
    /\ frame_times = <<>>
    /\ frame_num = <<>>

\* C14: the device handle is closed and opened again (set_crop) only while
\* the session is idle or live: no sink is open and recording is disabled.
C14_CropOnlyWhenIdle ==
    [][cam'.handle # cam.handle =>
          vid_out = None /\ ~recording_status]_vars

C16_ModeChangeWhileSuspended ==
    /\ (c_op = "disable_trigger" /\ cpc \in {"dt_continuous", "dt_trigger"})
          => ~cam.live
    /\ (c_op = "disable_trigger" /\ cpc = "dt_trigger") => cam.continuous
    /\ (c_op = "disable_trigger" /\ cpc = "dt_start")
          => ~cam.live /\ cam.continuous /\ ~cam.trigger
    /\ (c_op = "disable_trigger" /\ cpc = "done")
          => cam.live /\ cam.continuous /\ ~cam.trigger
    /\ cpc \in {"tc_set", "tc_start"} => ~cam.live
    /\ (c_op = "turn_on_continuous_mode" /\ cpc = "done")
          => cam.live /\ cam.continuous
    /\ (c_op = "turn_off_continuous_mode" /\ cpc = "done")
          => cam.live /\ ~cam.continuous

C16_Witness ==
    /\ c_op = "disable_trigger"
    /\ cpc = "dt_trigger"
    /\ cam.trigger
    /\ cam.callback_registered
    /\ ~cam.live
    /\ vid_out # None

\* C17: when release_video_file returns, whatever the session was when it
\* was called, recording is disabled, no sink is referred to and every
\* video writer opened has been released, both histories are empty, and
\* the vertical flip of the device is off.
C17_ReleasedAndFlipReverted ==
    Returned =>
        /\ ~recording_status
        /\ vid_out = None
        /\ \A i \in DOMAIN sinks : sinks[i].released
        /\ frame_times = <<>>
        /\ frame_num = <<>>
        /\ ~cam.flip

C17_Witness ==
    /\ Returned
    /\ Len(c_ret[1]) = 1
    /\ Len(sinks) = 1
    /\ sinks[1].released
    /\ Len(sinks[1].frames) = 1
    /\ ~cam.flip
    /\ ~recording_status

\* C18: when set_up_video_trigger returns, recording is disabled.
C18_ArmedNotRecording ==
    (cpc = "done" /\ c_op = "set_up_video_trigger") => ~recording_status

\* C19: when release_video_file has closed the sink, the copies of the
\* histories it took before (and returns) have one entry for each frame
\* encoded into that sink, in order.
C19_SnapshotMatchesSink ==
    (c_op = "release_video_file" /\ cpc = "rl_none") =>
        /\ c_times = Times(sinks[vid_out].frames)
        /\ c_num = Nums(sinks[vid_out].frames)

\* C20: between operations, while a sink is open, the histories are the
\* times and frame numbers of the frames encoded into it, in order.
C20_HistoryMatchesSink ==
    (Idle /\ vid_out # None) =>
        /\ frame_times = Times(sinks[vid_out].frames)
        /\ frame_num = Nums(sinks[vid_out].frames)

=============================================================================
